---- MODULE Spec2Model ----
(***************************************************************************)
(* Model of lab_2_retrieval_w_bm25/main.py: text retrieval with BM25.      *)
(*                                                                         *)
(* Every function of the module is pure except save_index / load_index,    *)
(* which write and read files.  A call is modelled as one step: the        *)
(* arguments are drawn in the initial state (or, for the persistence       *)
(* functions, when the call is made) and the action of the function        *)
(* computes its outcome.                                                   *)
(*                                                                         *)
(* Python values are encoded as records of one shape per role:             *)
(*   scalar  [ty, s, q]   ty in "str","float","int","bool","none";         *)
(*                        s the characters of a str, q the number as a     *)
(*                        rational <<numerator, denominator>>              *)
(*   list    [ty, items]  ty "list" or the type found instead of a list    *)
(*   dict    [ty, m]      ty "dict" or the type found instead of a dict;   *)
(*                        m a function from key scalars to value scalars   *)
(* An outcome is [kind, ...] with kind "pending" (not yet returned),       *)
(* "value", "absent" (None) or "raise" (an exception left the function).   *)
(*                                                                         *)
(* fn, args and ret are the call in progress; files is the file system.    *)
(* lastValid and lastGiven are history variables, not program state: for   *)
(* each path, the last index handed to save_index that was a non-empty     *)
(* list of string-to-float maps, and the last that was such a list, empty  *)
(* or not.                                                                 *)
(* Floats are modelled by exact rationals; float division by zero raises   *)
(* ZeroDivisionError as in Python.                                         *)
(***************************************************************************)
EXTENDS Integers, Sequences, FiniteSets, TLC

VARIABLES fn, args, ret, files, lastValid, lastGiven

vars == <<fn, args, ret, files, lastValid, lastGiven>>

(***************************************************************************)
(* Rational arithmetic (the model of float arithmetic).                    *)
(***************************************************************************)
Abs(x) == IF x < 0 THEN -x ELSE x

RECURSIVE Gcd(_, _)
Gcd(a, b) == IF b = 0 THEN a ELSE Gcd(b, a % b)

Norm(n, d) ==
    LET g == Gcd(Abs(n), Abs(d))
        sg == IF d < 0 THEN -1 ELSE 1
    IN  <<(sg * n) \div g, (sg * d) \div g>>

Q(n, d) == Norm(n, d)
QInt(i) == <<i, 1>>
QAdd(x, y) == Norm(x[1] * y[2] + y[1] * x[2], x[2] * y[2])
QSub(x, y) == Norm(x[1] * y[2] - y[1] * x[2], x[2] * y[2])
QMul(x, y) == Norm(x[1] * y[1], x[2] * y[2])
QIsZero(x) == x[1] = 0
\* x / y for y # 0
QDiv(x, y) == Norm(x[1] * y[2], x[2] * y[1])
QLt(x, y) == x[1] * y[2] < y[1] * x[2]
QLe(x, y) == x[1] * y[2] <= y[1] * x[2]

(***************************************************************************)
(* Scalars, lists, outcomes.                                               *)
(***************************************************************************)
PyStr(s) == [ty |-> "str", s |-> s, q |-> <<0, 1>>]
PyFloat(q) == [ty |-> "float", s |-> <<>>, q |-> q]
PyInt(i) == [ty |-> "int", s |-> <<>>, q |-> <<i, 1>>]
PyBool(i) == [ty |-> "bool", s |-> <<>>, q |-> <<i, 1>>]
PyNone == [ty |-> "none", s |-> <<>>, q |-> <<0, 1>>]

List(items) == [ty |-> "list", items |-> items]
NotAList(t) == [ty |-> t, items |-> <<>>]

Pending == [kind |-> "pending"]
Absent == [kind |-> "absent"]
Raise(e) == [kind |-> "raise", exc |-> e]
Value(v) == [kind |-> "value", val |-> v]

\* isinstance(x, str), isinstance(x, float); bool is a subclass of int
IsStr(x) == x.ty = "str"
IsFloat(x) == x.ty = "float"
IsInt(x) == x.ty \in {"int", "bool"}
IsList(x) == x.ty = "list"

Range(f) == {f[i] : i \in DOMAIN f}
AllStr(seq) == \A i \in DOMAIN seq : IsStr(seq[i])

\* All sequences over S of length lo..hi
SeqsOf(S, lo, hi) == UNION {[1..n -> S] : n \in lo..hi}

(***************************************************************************)
(* Characters and tokenize (main.py 13-33).                                *)
(***************************************************************************)
LowerLetters == {"a", "b", "c", "d", "e", "g", "h", "o", "t"}
UpperLetters == {"A", "B"}
Space == " "

\* str.isalpha() of one character
CharIsAlpha(c) == c \in LowerLetters \cup UpperLetters

\* str.lower() of one character
CharLower(c) == IF c = "A" THEN "a" ELSE IF c = "B" THEN "b" ELSE c

\* the for-loop of tokenize: every symbol that is neither a letter nor a
\* space is replaced by a space
ReplaceSymbols(text) ==
    [i \in DOMAIN text |->
        IF CharIsAlpha(text[i]) \/ text[i] = Space THEN text[i] ELSE Space]

\* str.lower()
Lower(text) == [i \in DOMAIN text |-> CharLower(text[i])]

\* str.split(): the maximal runs of non-space characters, in order
RECURSIVE SplitFrom(_, _, _)
SplitFrom(text, i, cur) ==
    IF i > Len(text)
    THEN IF cur = <<>> THEN <<>> ELSE <<cur>>
    ELSE IF text[i] = Space
         THEN IF cur = <<>>
              THEN SplitFrom(text, i + 1, <<>>)
              ELSE <<cur>> \o SplitFrom(text, i + 1, <<>>)
         ELSE SplitFrom(text, i + 1, Append(cur, text[i]))

Split(text) == SplitFrom(text, 1, <<>>)

\* tokenize(text): text a scalar; the result a list of str scalars
tokenize(text) ==
    IF ~IsStr(text) \/ Len(text.s) < 1
    THEN Absent
    ELSE LET words == Split(Lower(ReplaceSymbols(text.s)))
         IN  Value(List([i \in DOMAIN words |-> PyStr(words[i])]))

(***************************************************************************)
(* remove_stopwords (main.py 36-60).                                       *)
(***************************************************************************)
\* a filter that compares each token with the first stopword only
RECURSIVE FilterNotFirst(_, _)
FilterNotFirst(items, stop) ==
    IF items = <<>>
    THEN <<>>
    ELSE IF stop # <<>> /\ Head(items) = Head(stop)
         THEN FilterNotFirst(Tail(items), stop)
         ELSE <<Head(items)>> \o FilterNotFirst(Tail(items), stop)

\* filter(lambda x: x not in stopwords, tokens)
RECURSIVE FilterNotIn(_, _)
FilterNotIn(items, stop) ==
    IF items = <<>>
    THEN <<>>
    ELSE IF Head(items) \in Range(stop)
         THEN FilterNotIn(Tail(items), stop)
         ELSE <<Head(items)>> \o FilterNotIn(Tail(items), stop)

remove_stopwords(tokens, stopwords) ==
    IF tokens.ty = "none" \/ ~IsList(tokens) \/ ~IsList(stopwords)
    THEN Absent
    ELSE IF ~AllStr(tokens.items)
    THEN Absent
    ELSE IF ~AllStr(stopwords.items)
    THEN Absent
    ELSE IF Len(tokens.items) = 0 \/ Len(stopwords.items) = 0
    THEN Absent
    ELSE Value(List(FilterNotIn(tokens.items, stopwords.items)))

(***************************************************************************)
(* Dicts.  A dict argument is [ty, m]; m maps key scalars to value         *)
(* scalars.  Python compares dicts by keys and values, whatever the        *)
(* insertion order, which is the equality of the functions m.              *)
(***************************************************************************)
Dict(m) == [ty |-> "dict", m |-> m]
NotADict(t) == [ty |-> t, m |-> <<>>]
IsDict(x) == x.ty = "dict"

\* all(isinstance(key, str) ...) and all(isinstance(value, float) ...)
KeysAreStr(d) == \A k \in DOMAIN d.m : IsStr(k)
ValuesAreFloat(d) == \A k \in DOMAIN d.m : IsFloat(d.m[k])

(***************************************************************************)
(* calculate_idf (main.py 115-147).  math.log is not computed: the score   *)
(* ln(x) is kept as the record [ln |-> x] of its argument x, a rational;   *)
(* ln is strictly increasing and ln(1) = 0.                                *)
(***************************************************************************)
Ln(x) == [ln |-> x]

\* str.isalpha(): non-empty and every character a letter
StrIsAlpha(x) == Len(x.s) > 0 /\ \A i \in DOMAIN x.s : CharIsAlpha(x.s[i])

AllAlpha(seq) == \A i \in DOMAIN seq : StrIsAlpha(seq[i])

\* sum(1 for document in documents if token in document)
RECURSIVE DocsContaining(_, _)
DocsContaining(token, docs) ==
    IF docs = <<>>
    THEN 0
    ELSE (IF token \in Range(Head(docs).items) THEN 1 ELSE 0)
         + DocsContaining(token, Tail(docs))

\* the score with the quotient upside down
IdfScoreInverted(n_docs, token_count) ==
    Ln(QDiv(QAdd(QInt(token_count), Q(1, 2)),
            QAdd(QInt(n_docs - token_count), Q(1, 2))))

\* math.log((len(documents) - token_count + 0.5) / (token_count + 0.5))
IdfScore(n_docs, token_count) ==
    Ln(QDiv(QAdd(QInt(n_docs - token_count), Q(1, 2)),
            QAdd(QInt(token_count), Q(1, 2))))

calculate_idf(vocab, documents) ==
    IF ~IsList(vocab) \/ ~IsList(documents)
       \/ Len(vocab.items) = 0 \/ Len(documents.items) = 0
    THEN Absent
    ELSE IF ~AllStr(vocab.items) \/ ~AllAlpha(vocab.items)
            \/ ~(\A i \in DOMAIN documents.items : IsList(documents.items[i]))
    THEN Absent
    ELSE IF \E i \in DOMAIN documents.items :
               ~AllStr(documents.items[i].items)
               \/ ~AllAlpha(documents.items[i].items)
    THEN Absent
    ELSE Value([token \in Range(vocab.items) |->
                  IdfScore(Len(documents.items),
                           DocsContaining(token, documents.items))])

(***************************************************************************)
(* rank_documents (main.py 232-278).                                       *)
(***************************************************************************)
\* list.index(x): the first position holding a value equal to x, from 0
IndexOf(items, x) ==
    (CHOOSE j \in DOMAIN items :
        items[j] = x /\ \A k \in 1..(j - 1) : items[k] # x) - 1

\* sum(bm25_tfidf_dict[token] for token in processed_query
\*     if token in bm25_tfidf_dict)
RECURSIVE SumScores(_, _)
SumScores(d, query) ==
    IF query = <<>>
    THEN QInt(0)
    ELSE QAdd(IF Head(query) \in DOMAIN d.m THEN d.m[Head(query)].q ELSE QInt(0),
              SumScores(d, Tail(query)))

\* result_not_sorted[i] = value_sum on a dict kept as its items in
\* insertion order: a known key keeps its place and takes the new value
DictPut(pairs, k, v) ==
    IF \E j \in DOMAIN pairs : pairs[j][1] = k
    THEN [j \in DOMAIN pairs |-> IF pairs[j][1] = k THEN <<k, v>> ELSE pairs[j]]
    ELSE Append(pairs, <<k, v>>)

\* the loop over indexes, from position p on
RECURSIVE RankLoop(_, _, _, _)
RankLoop(indexes, query, p, acc) ==
    IF p > Len(indexes)
    THEN acc
    ELSE RankLoop(indexes, query, p + 1,
                  DictPut(acc, IndexOf(indexes, indexes[p]),
                          SumScores(indexes[p], query)))

\* an unstable descending insertion: an element goes before the elements
\* already placed that have its key
RECURSIVE InsertDescUnstable(_, _)
InsertDescUnstable(sorted, x) ==
    IF sorted = <<>>
    THEN <<x>>
    ELSE IF QLt(x[2], Head(sorted)[2])
         THEN <<Head(sorted)>> \o InsertDescUnstable(Tail(sorted), x)
         ELSE <<x>> \o sorted

\* sorted(..., key=lambda x: x[1], reverse=True) is stable: an element goes
\* behind every element already placed whose key is not smaller
RECURSIVE InsertDesc(_, _)
InsertDesc(sorted, x) ==
    IF sorted = <<>>
    THEN <<x>>
    ELSE IF QLe(x[2], Head(sorted)[2])
         THEN <<Head(sorted)>> \o InsertDesc(Tail(sorted), x)
         ELSE <<x>> \o sorted

RECURSIVE SortedDesc(_, _)
SortedDesc(pairs, acc) ==
    IF pairs = <<>>
    THEN acc
    ELSE SortedDesc(Tail(pairs), InsertDesc(acc, Head(pairs)))

RankBadInput(indexes, query, stopwords) ==
    \/ ~IsList(indexes)
    \/ ~(\A i \in DOMAIN indexes.items : IsDict(indexes.items[i]))
    \/ ~(\A i \in DOMAIN indexes.items :
            KeysAreStr(indexes.items[i]) /\ ValuesAreFloat(indexes.items[i]))
    \/ indexes.items = <<>>
    \/ ~IsStr(query)
    \/ query.s = <<>>
    \/ ~IsList(stopwords)
    \/ stopwords.items = <<>>
    \/ ~AllStr(stopwords.items)

rank_documents(indexes, query, stopwords) ==
    IF RankBadInput(indexes, query, stopwords)
    THEN Absent
    ELSE LET tokenized_query == tokenize(query)
         IN  IF tokenized_query.kind = "absent"
             THEN Absent
             ELSE LET processed_query ==
                          remove_stopwords(tokenized_query.val, stopwords)
                  IN  IF processed_query.kind = "absent"
                      THEN Absent
                      ELSE Value(SortedDesc(
                               RankLoop(indexes.items,
                                        processed_query.val.items, 1, <<>>),
                               <<>>))

(***************************************************************************)
(* calculate_bm25 (main.py 171-229).                                       *)
(***************************************************************************)
\* list.count(x)
RECURSIVE Count(_, _)
Count(items, x) ==
    IF items = <<>>
    THEN 0
    ELSE (IF Head(items) = x THEN 1 ELSE 0) + Count(Tail(items), x)

\* idf * ((f * (k1 + 1)) / (f + k1 * (1 - b + b * (doc_len / avg_doc_len))))
\* evaluated inside out: doc_len / avg_doc_len first, the outer quotient
\* last; either division raises on a zero divisor
Bm25Term(idf, f, k1, b, avg_doc_len, doc_len) ==
    IF QIsZero(avg_doc_len)
    THEN Raise("ZeroDivisionError")
    ELSE LET divisor ==
                 QAdd(QInt(f),
                      QMul(k1, QAdd(QSub(QInt(1), b),
                                    QMul(b, QDiv(doc_len, avg_doc_len)))))
         IN  IF QIsZero(divisor)
             THEN Raise("ZeroDivisionError")
             ELSE Value(PyFloat(QMul(idf,
                                     QDiv(QMul(QInt(f), QAdd(k1, QInt(1))),
                                          divisor))))

Bm25BadInput(vocab, document, idf_document, k1, b, avg_doc_len, doc_len) ==
    \/ ~IsList(vocab)
    \/ ~AllStr(vocab.items)
    \/ ~IsList(document)
    \/ ~AllStr(document.items)
    \/ Len(vocab.items) = 0 \/ Len(document.items) = 0
    \/ ~IsDict(idf_document)
    \/ DOMAIN idf_document.m = {}
    \/ ~KeysAreStr(idf_document)
    \/ ~ValuesAreFloat(idf_document)
    \/ ~IsFloat(k1) \/ ~IsFloat(b)
    \/ ~IsFloat(avg_doc_len)
    \/ ~IsInt(doc_len)
    \/ doc_len.ty = "bool"

\* a score that takes f as 1 for a token of the document, not its count
Bm25TokenPresence(token, document, idf_document, k1, b, avg_doc_len, doc_len) ==
    IF token \in DOMAIN idf_document.m
    THEN Bm25Term(idf_document.m[token].q,
                  IF token \in Range(document.items) THEN 1 ELSE 0,
                  k1.q, b.q, avg_doc_len.q, doc_len.q)
    ELSE Value(PyInt(0))

\* the score of one token of set(vocab) | set(document)
Bm25Token(token, document, idf_document, k1, b, avg_doc_len, doc_len) ==
    IF token \in DOMAIN idf_document.m
       /\ doc_len.ty # "none" /\ avg_doc_len.ty # "none"
    THEN Bm25Term(idf_document.m[token].q, Count(document.items, token),
                  k1.q, b.q, avg_doc_len.q, doc_len.q)
    ELSE Value(PyInt(0))

calculate_bm25(vocab, document, idf_document, k1, b, avg_doc_len, doc_len) ==
    IF Bm25BadInput(vocab, document, idf_document, k1, b, avg_doc_len, doc_len)
    THEN Absent
    ELSE LET all_token_list == Range(vocab.items) \cup Range(document.items)
             score(token) ==
                 Bm25Token(token, document, idf_document, k1, b,
                           avg_doc_len, doc_len)
         IN  IF \E token \in all_token_list : score(token).kind = "raise"
             THEN Raise("ZeroDivisionError")
             ELSE Value(Dict([token \in all_token_list |-> score(token).val]))

(***************************************************************************)
(* calculate_bm25_with_cutoff (main.py 281-329).                           *)
(***************************************************************************)
\* idf * ((f * (k1 + 1)) / (f + k1 * (1 - b + (b * doc_len / avg_doc_len))))
\* here b * doc_len is divided by avg_doc_len
CutoffTerm(idf, f, k1, b, avg_doc_len, doc_len) ==
    IF QIsZero(avg_doc_len)
    THEN Raise("ZeroDivisionError")
    ELSE LET divisor ==
                 QAdd(QInt(f),
                      QMul(k1, QAdd(QSub(QInt(1), b),
                                    QDiv(QMul(b, doc_len), avg_doc_len))))
         IN  IF QIsZero(divisor)
             THEN Raise("ZeroDivisionError")
             ELSE Value(PyFloat(QMul(idf,
                                     QDiv(QMul(QInt(f), QAdd(k1, QInt(1))),
                                          divisor))))

CutoffBadInput(vocab, document, idf_document, alpha, k1, b, avg_doc_len, doc_len) ==
    \/ ~IsList(vocab) \/ Len(vocab.items) = 0 \/ ~AllStr(vocab.items)
    \/ ~IsList(document) \/ Len(document.items) = 0
    \/ ~AllStr(document.items)
    \/ ~IsDict(idf_document) \/ DOMAIN idf_document.m = {}
    \/ ~KeysAreStr(idf_document)
    \/ ~ValuesAreFloat(idf_document)
    \/ ~IsFloat(alpha) \/ ~IsFloat(k1) \/ ~IsFloat(b) \/ ~IsFloat(avg_doc_len)
    \/ ~IsInt(doc_len) \/ doc_len.ty = "bool" \/ QLt(doc_len.q, QInt(0))

\* a cutoff that also drops the terms whose IDF equals alpha
CutoffKeepsStrict(word, idf_document, alpha) ==
    word \in DOMAIN idf_document.m /\ QLt(alpha.q, idf_document.m[word].q)

\* if word in idf_document and idf_document[word] >= alpha
CutoffKeeps(word, idf_document, alpha) ==
    word \in DOMAIN idf_document.m /\ QLe(alpha.q, idf_document.m[word].q)

calculate_bm25_with_cutoff(vocab, document, idf_document, alpha, k1, b, avg_doc_len, doc_len) ==
    IF CutoffBadInput(vocab, document, idf_document, alpha, k1, b,
                      avg_doc_len, doc_len)
    THEN Absent
    ELSE LET kept == {word \in Range(vocab.items) :
                         CutoffKeeps(word, idf_document, alpha)}
             score(word) ==
                 CutoffTerm(idf_document.m[word].q, Count(document.items, word),
                            k1.q, b.q, avg_doc_len.q, doc_len.q)
         IN  IF \E word \in kept : score(word).kind = "raise"
             THEN Raise("ZeroDivisionError")
             ELSE Value(Dict([word \in kept |-> score(word).val]))

(***************************************************************************)
(* calculate_spearman (main.py 373-398).  Integers compare by value, so    *)
(* True == 1.                                                              *)
(***************************************************************************)
AllInt(seq) == \A i \in DOMAIN seq : IsInt(seq[i])

\* item in golden_rank
NumIn(items, x) == \E j \in DOMAIN items : items[j].q = x.q

\* list.index(item) on integers
NumIndexOf(items, x) ==
    (CHOOSE j \in DOMAIN items :
        items[j].q = x.q /\ \A k \in 1..(j - 1) : items[k].q # x.q) - 1

\* the loop adding (golden_rank.index(item) - rank.index(item)) ** 2
RECURSIVE RankDifferences(_, _, _)
RankDifferences(rank, golden_rank, p) ==
    IF p > Len(rank)
    THEN 0
    ELSE (IF NumIn(golden_rank, rank[p])
          THEN (NumIndexOf(golden_rank, rank[p]) - NumIndexOf(rank, rank[p]))
               * (NumIndexOf(golden_rank, rank[p]) - NumIndexOf(rank, rank[p]))
          ELSE 0)
         + RankDifferences(rank, golden_rank, p + 1)

\* the coefficient with the divisor n * n**2 - 1
SpearmanValueSlip(n, rank_differences) ==
    IF n * n * n - 1 = 0
    THEN Raise("ZeroDivisionError")
    ELSE Value(PyFloat(QSub(QInt(1), Q(6 * rank_differences, n * n * n - 1))))

\* 1 - (6 * rank_differences) / (n * (n**2 - 1))
SpearmanValue(n, rank_differences) ==
    IF n * (n * n - 1) = 0
    THEN Raise("ZeroDivisionError")
    ELSE Value(PyFloat(QSub(QInt(1), Q(6 * rank_differences, n * (n * n - 1)))))

calculate_spearman(rank, golden_rank) ==
    IF ~IsList(rank) \/ Len(rank.items) = 0 \/ ~AllInt(rank.items)
    THEN Absent
    ELSE IF ~IsList(golden_rank) \/ Len(golden_rank.items) = 0
            \/ ~AllInt(golden_rank.items)
            \/ Len(rank.items) # Len(golden_rank.items)
    THEN Absent
    ELSE SpearmanValue(Len(rank.items),
                       RankDifferences(rank.items, golden_rank.items, 1))

(***************************************************************************)
(* save_index / load_index (main.py 332-370).  A file holds the JSON text  *)
(* json.dump wrote: an array of objects, each object the sequence of its   *)
(* members <<key characters, number literal>> in the dict's order.  A      *)
(* number literal is [q, frac]: its value, and whether it is written with  *)
(* a fraction or exponent part, which is what makes the parser build a     *)
(* float and not an int.                                                   *)
(***************************************************************************)
NoFile == [exists |-> FALSE, text |-> <<>>]
FileWith(text) == [exists |-> TRUE, text |-> text]

\* a literal that writes a float of integral value as an integer ("1")
NumberLiteralShort(x) == [q |-> x.q, frac |-> IsFloat(x) /\ x.q[2] # 1]

\* float.__repr__ always writes a fraction or an exponent ("1.0", "1e+16");
\* int.__repr__ never does
NumberLiteral(x) == [q |-> x.q, frac |-> IsFloat(x)]

\* the JSON parser on a number literal
ParseNumber(lit) == IF lit.frac THEN PyFloat(lit.q) ELSE PyInt(lit.q[1])

\* the keys of a dict in its iteration order
RECURSIVE KeyOrder(_)
KeyOrder(keys) ==
    IF keys = {}
    THEN <<>>
    ELSE LET k == CHOOSE x \in keys : TRUE
         IN  <<k>> \o KeyOrder(keys \ {k})

\* json.dump of one dict
DumpObject(d) ==
    LET order == KeyOrder(DOMAIN d.m)
    IN  [i \in DOMAIN order |-> <<order[i].s, NumberLiteral(d.m[order[i]])>>]

\* json.dump(index, file)
JsonDump(index) == [i \in DOMAIN index.items |-> DumpObject(index.items[i])]

\* json.load of one object: a later member with the same key wins
LoadObject(members) ==
    Dict([k \in {PyStr(members[i][1]) : i \in DOMAIN members} |->
            LET last == CHOOSE i \in DOMAIN members :
                            /\ members[i][1] = k.s
                            /\ \A j \in DOMAIN members :
                                   members[j][1] = k.s => j <= i
            IN  ParseNumber(members[last][2])])

\* json.load(file)
JsonLoad(text) == List([i \in DOMAIN text |-> LoadObject(text[i])])

SaveIndexRejects(index, file_path) ==
    \/ index.ty = "none" \/ index.items = <<>>
    \/ ~IsList(index)
    \/ ~(\A i \in DOMAIN index.items : IsDict(index.items[i]))
    \/ ~(\A i \in DOMAIN index.items : KeysAreStr(index.items[i]))
    \/ ~(\A i \in DOMAIN index.items : ValuesAreFloat(index.items[i]))
    \/ ~IsStr(file_path) \/ file_path.s = <<>>

\* the file system after save_index(index, file_path)
save_index(fs, index, file_path) ==
    IF SaveIndexRejects(index, file_path)
    THEN fs
    ELSE [fs EXCEPT ![file_path.s] = FileWith(JsonDump(index))]

\* the outcome of load_index(file_path)
load_index(fs, file_path) ==
    IF file_path.ty = "none" \/ file_path.s = <<>> \/ ~IsStr(file_path)
    THEN Absent
    ELSE IF ~fs[file_path.s].exists
    THEN Raise("FileNotFoundError")
    ELSE Value(JsonLoad(fs[file_path.s].text))

(***************************************************************************)
(* Bounds of the checked inputs.                                           *)
(***************************************************************************)
MaxTokens == 3
MaxStopwords == 2
MaxDocs == 2
MaxQueryLen == 3
MaxVocab == 2
MaxDocLen == 2
MaxRank == 3
MaxIdfVocab == 2
MaxIdfDocs == 3
MaxSavedDocs == 2

Tok(c) == PyStr(<<c>>)
The == PyStr(<<"t", "h", "e">>)

\* no file is written outside save_index
NoFiles == <<>>

(***************************************************************************)
(* Calls of remove_stopwords.                                              *)
(***************************************************************************)
StopTokenInputs ==
    {List(s) : s \in SeqsOf({Tok("a"), Tok("b"), The, PyInt(1)}, 0, MaxTokens)}
    \cup {NotAList("none"), NotAList("str")}

StopwordInputs ==
    {List(s) : s \in SeqsOf({Tok("a"), The, PyInt(1)}, 0, MaxStopwords)}
    \cup {NotAList("none")}

InitStop ==
    /\ fn = "remove_stopwords"
    /\ args \in [tokens : StopTokenInputs, stopwords : StopwordInputs]
    /\ ret = Pending
    /\ files = NoFiles
    /\ lastValid = NoFiles
    /\ lastGiven = NoFiles

RemoveStopwords ==
    /\ fn = "remove_stopwords"
    /\ ret.kind = "pending"
    /\ ret' = remove_stopwords(args.tokens, args.stopwords)
    /\ UNCHANGED <<fn, args, files, lastValid, lastGiven>>

NextStop == RemoveStopwords

SpecStop == InitStop /\ [][NextStop]_vars

(***************************************************************************)
(* Calls of rank_documents.                                                *)
(***************************************************************************)
\* score maps over the keys a (0.5 or 1.0) and b (1.0)
RankDicts ==
    {Dict(m) : m \in UNION {{f \in [K -> {PyFloat(Q(1, 2)), PyFloat(QInt(1))}] :
                                Tok("b") \in K => f[Tok("b")] = PyFloat(QInt(1))} :
                              K \in SUBSET {Tok("a"), Tok("b")}}}

RankIndexInputs == {List(s) : s \in SeqsOf(RankDicts, 1, MaxDocs)}

RankQueryInputs == {PyStr(s) : s \in SeqsOf({"a", "B", " ", "1"}, 0, MaxQueryLen)}

RankStopwordInputs ==
    {List(<<The>>), List(<<Tok("a")>>), List(<<Tok("b"), Tok("a")>>)}

\* indexes, query or stopwords of the wrong shape
RankMalformedInputs ==
    [indexes : {NotAList("none"), List(<<>>), List(<<NotADict("int")>>),
                List(<<Dict([k \in {PyInt(1)} |-> PyFloat(QInt(1))])>>),
                List(<<Dict([k \in {Tok("a")} |-> PyInt(1)])>>)},
     query : {PyStr(<<"a">>)}, stopwords : {List(<<The>>)}]
    \cup [indexes : {List(<<Dict([k \in {Tok("a")} |-> PyFloat(QInt(1))])>>)},
          query : {PyNone, PyBool(1), PyStr(<<"a">>)},
          stopwords : {NotAList("none"), List(<<>>), List(<<PyInt(1)>>)}]

\* rank_documents([{"cat": 1.0, "dog": 0.5}, {"cat": 0.0, "dog": 2.0}],
\*                "cat dog", ["the"])
Cat == PyStr(<<"c", "a", "t">>)
Dog == PyStr(<<"d", "o", "g">>)
ExampleRankCall ==
    [indexes |-> List(<<Dict([k \in {Cat, Dog} |->
                                IF k = Cat THEN PyFloat(QInt(1))
                                ELSE PyFloat(Q(1, 2))]),
                        Dict([k \in {Cat, Dog} |->
                                IF k = Cat THEN PyFloat(QInt(0))
                                ELSE PyFloat(QInt(2))])>>),
     query |-> PyStr(<<"c", "a", "t", " ", "d", "o", "g">>),
     stopwords |-> List(<<The>>)]

InitRank ==
    /\ fn = "rank_documents"
    /\ \/ args \in [indexes : RankIndexInputs, query : RankQueryInputs,
                    stopwords : RankStopwordInputs]
       \/ args \in RankMalformedInputs
       \/ args = ExampleRankCall
    /\ ret = Pending
    /\ files = NoFiles
    /\ lastValid = NoFiles
    /\ lastGiven = NoFiles

RankDocuments ==
    /\ fn = "rank_documents"
    /\ ret.kind = "pending"
    /\ ret' = rank_documents(args.indexes, args.query, args.stopwords)
    /\ UNCHANGED <<fn, args, files, lastValid, lastGiven>>

NextRank == RankDocuments

SpecRank == InitRank /\ [][NextRank]_vars

(***************************************************************************)
(* Claims on remove_stopwords.                                             *)
(***************************************************************************)
Returned(f) == fn = f /\ ret.kind # "pending"

\* the positions of tokens that hold no stopword
KeptPositions(tokens, stopwords) ==
    {i \in DOMAIN tokens : \A j \in DOMAIN stopwords : tokens[i] # stopwords[j]}

\* the k-th smallest element of a set of positions
KthOf(S, k) == CHOOSE i \in S : Cardinality({j \in S : j <= i}) = k

StopInputsProper ==
    /\ IsList(args.tokens) /\ IsList(args.stopwords)
    /\ args.tokens.items # <<>> /\ args.stopwords.items # <<>>
    /\ AllStr(args.tokens.items) /\ AllStr(args.stopwords.items)

\* C5: on non-empty lists of strings remove_stopwords returns exactly the
\* tokens that are no stopword, each occurrence kept, in their order; on a
\* list that is empty or holds a non-string it returns the absent value.
C5_RemoveStopwordsIsFilter ==
    Returned("remove_stopwords") =>
        /\ StopInputsProper =>
             /\ ret.kind = "value"
             /\ LET kept == KeptPositions(args.tokens.items, args.stopwords.items)
                    out == ret.val.items
                IN  /\ Len(out) = Cardinality(kept)
                    /\ \A k \in DOMAIN out : out[k] = args.tokens.items[KthOf(kept, k)]
                    /\ \A k \in DOMAIN out : out[k] \notin Range(args.stopwords.items)
        /\ (IsList(args.tokens) /\ IsList(args.stopwords) /\ ~StopInputsProper)
             => ret.kind = "absent"

\* a call that drops a stopword from between two kept tokens, one of them
\* twice in the list
C5_Witness ==
    /\ Returned("remove_stopwords")
    /\ ret.kind = "value"
    /\ Len(args.tokens.items) = 3
    /\ Len(ret.val.items) = 2
    /\ ret.val.items[1] = ret.val.items[2]
    /\ args.tokens.items[2] \in Range(args.stopwords.items)

(***************************************************************************)
(* Claims on rank_documents.                                               *)
(***************************************************************************)
\* the tokens of the tokenized, stopword-filtered query of a call that
\* returned a ranking
QueryTokens ==
    remove_stopwords(tokenize(args.query).val, args.stopwords).val.items

\* the sum of doc[t] over the occurrences of the query tokens that are keys
RECURSIVE ScoreOver(_, _, _)
ScoreOver(doc, tokens, i) ==
    IF i = 0
    THEN QInt(0)
    ELSE QAdd(ScoreOver(doc, tokens, i - 1),
              IF tokens[i] \in DOMAIN doc.m THEN doc.m[tokens[i]].q ELSE QInt(0))

\* C1: a returned ranking holds exactly one pair (i, s) for each document
\* position i, also when two positions hold equal score maps, and s is the
\* sum of the document's scores over the query tokens that are its keys.
C1_OnePairPerDocument ==
    (Returned("rank_documents") /\ ret.kind = "value") =>
        /\ Len(ret.val) = Len(args.indexes.items)
        /\ \A i \in DOMAIN args.indexes.items :
              /\ Cardinality({j \in DOMAIN ret.val : ret.val[j][1] = i - 1}) = 1
              /\ \A j \in DOMAIN ret.val :
                    ret.val[j][1] = i - 1 =>
                        ret.val[j][2] = ScoreOver(args.indexes.items[i], QueryTokens,
                                                  Len(QueryTokens))

\* C2: a returned ranking is in non-increasing order of score, pairs of
\* equal score in ascending order of document index; the call of the
\* example returns [(1, 2.0), (0, 1.5)].
C2_SortedStable ==
    (Returned("rank_documents") /\ ret.kind = "value") =>
        /\ \A j, k \in DOMAIN ret.val :
              j < k =>
                  /\ QLe(ret.val[k][2], ret.val[j][2])
                  /\ ret.val[k][2] = ret.val[j][2] => ret.val[j][1] < ret.val[k][1]
        /\ args = ExampleRankCall => ret.val = <<<<1, QInt(2)>>, <<0, Q(3, 2)>>>>

\* a ranking with two documents of the same non-zero score
C2_Witness ==
    /\ Returned("rank_documents")
    /\ ret.kind = "value"
    /\ Len(ret.val) >= 2
    /\ \E j \in DOMAIN ret.val :
          /\ j + 1 \in DOMAIN ret.val
          /\ ret.val[j][2] = ret.val[j + 1][2]
          /\ ~QIsZero(ret.val[j][2])
          /\ ret.val[j][1] < ret.val[j + 1][1]

RankInputsValid == ~RankBadInput(args.indexes, args.query, args.stopwords)

\* the ranking that gives every document the score 0, in corpus order
ZeroRanking(n) == [i \in 1..n |-> <<i - 1, QInt(0)>>]

\* C10: with valid indexes and stopwords, a non-empty query without any
\* letter gives the absent value, and a query whose every token is a
\* stopword gives the full ranking with score 0 for every document, in
\* corpus order.
C10_NoUsableToken ==
    (Returned("rank_documents") /\ RankInputsValid) =>
        LET tokens == tokenize(args.query).val.items
        IN  /\ tokens = <<>> => ret.kind = "absent"
            /\ (tokens # <<>> /\ \A i \in DOMAIN tokens :
                                    tokens[i] \in Range(args.stopwords.items))
                 => ret = Value(ZeroRanking(Len(args.indexes.items)))

(***************************************************************************)
(* Calls of calculate_bm25, calculate_bm25_with_cutoff and                 *)
(* calculate_spearman.                                                     *)
(***************************************************************************)
Bm25VocabInputs == {List(s) : s \in SeqsOf({Tok("a"), Tok("b")}, 0, MaxVocab)}

Bm25DocumentInputs == {List(s) : s \in SeqsOf({Tok("a"), Tok("c")}, 0, MaxDocLen)}

\* IDF maps over the keys a and b
IdfDicts ==
    {Dict(m) : m \in UNION {[K -> {PyFloat(Q(-1, 2)), PyFloat(QInt(1))}] :
                              K \in SUBSET {Tok("a"), Tok("b")}}}

Bm25WellTyped ==
    [vocab : Bm25VocabInputs, document : Bm25DocumentInputs,
     idf_document : IdfDicts,
     alpha : {PyFloat(QInt(1)), PyFloat(QInt(2))},
     k1 : {PyFloat(QInt(0)), PyFloat(Q(3, 2))},
     b : {PyFloat(QInt(0)), PyFloat(Q(3, 4))},
     avg_doc_len : {PyFloat(QInt(0)), PyFloat(QInt(2))},
     doc_len : {PyInt(0), PyInt(2)}]

\* one argument of the wrong type at a time
Bm25IllTyped ==
    LET ok == [vocab |-> List(<<Tok("a")>>), document |-> List(<<Tok("a")>>),
               idf_document |-> Dict([k \in {Tok("a")} |-> PyFloat(QInt(1))]),
               alpha |-> PyFloat(QInt(1)), k1 |-> PyFloat(Q(3, 2)),
               b |-> PyFloat(Q(3, 4)), avg_doc_len |-> PyFloat(QInt(2)),
               doc_len |-> PyInt(1)]
    IN  {[ok EXCEPT !.vocab = v] : v \in {NotAList("none"), List(<<PyInt(1)>>)}}
        \cup {[ok EXCEPT !.document = v] : v \in {NotAList("str"), List(<<PyNone>>)}}
        \cup {[ok EXCEPT !.idf_document = v] :
                 v \in {NotADict("none"),
                        Dict([k \in {PyInt(1)} |-> PyFloat(QInt(1))]),
                        Dict([k \in {Tok("a")} |-> PyInt(1)])}}
        \cup {[ok EXCEPT !.alpha = v] : v \in {PyInt(1), PyNone}}
        \cup {[ok EXCEPT !.k1 = v] : v \in {PyInt(1), PyNone}}
        \cup {[ok EXCEPT !.b = v] : v \in {PyInt(1), PyBool(1)}}
        \cup {[ok EXCEPT !.avg_doc_len = v] : v \in {PyInt(2), PyNone}}
        \cup {[ok EXCEPT !.doc_len = v] :
                 v \in {PyBool(1), PyFloat(QInt(1)), PyNone, PyInt(-1)}}

SpearmanLists ==
    {List(s) : s \in SeqsOf({PyInt(i) : i \in 1..MaxRank}, 1, MaxRank)}

SpearmanIllTyped ==
    {NotAList("none"), List(<<>>), List(<<Tok("a"), PyInt(1)>>),
     List(<<PyBool(1), PyInt(2)>>)}

InitScoring ==
    /\ \/ /\ fn \in {"calculate_bm25", "calculate_bm25_with_cutoff"}
          /\ args \in Bm25WellTyped \cup Bm25IllTyped
       \/ /\ fn = "calculate_spearman"
          /\ \/ args \in [rank : SpearmanLists, golden_rank : SpearmanLists]
             \/ args \in [rank : SpearmanIllTyped,
                          golden_rank : {List(<<PyInt(1), PyInt(2)>>)}]
             \/ args \in [rank : {List(<<PyInt(1), PyInt(2)>>)},
                          golden_rank : SpearmanIllTyped]
    /\ ret = Pending
    /\ files = NoFiles
    /\ lastValid = NoFiles
    /\ lastGiven = NoFiles

CalculateBm25 ==
    /\ fn = "calculate_bm25"
    /\ ret.kind = "pending"
    /\ ret' = calculate_bm25(args.vocab, args.document, args.idf_document,
                             args.k1, args.b, args.avg_doc_len, args.doc_len)
    /\ UNCHANGED <<fn, args, files, lastValid, lastGiven>>

CalculateBm25WithCutoff ==
    /\ fn = "calculate_bm25_with_cutoff"
    /\ ret.kind = "pending"
    /\ ret' = calculate_bm25_with_cutoff(args.vocab, args.document,
                                         args.idf_document, args.alpha, args.k1,
                                         args.b, args.avg_doc_len, args.doc_len)
    /\ UNCHANGED <<fn, args, files, lastValid, lastGiven>>

CalculateSpearman ==
    /\ fn = "calculate_spearman"
    /\ ret.kind = "pending"
    /\ ret' = calculate_spearman(args.rank, args.golden_rank)
    /\ UNCHANGED <<fn, args, files, lastValid, lastGiven>>

NextScoring == CalculateBm25 \/ CalculateBm25WithCutoff \/ CalculateSpearman

SpecScoring == InitScoring /\ [][NextScoring]_vars

(***************************************************************************)
(* Claims on the scoring and metric functions.                             *)
(***************************************************************************)
\* C3: calculate_bm25, calculate_bm25_with_cutoff and calculate_spearman
\* end by returning a result or the absent value for every combination of
\* arguments, never by raising.
C3_NoExceptionCrosses ==
    (fn \in {"calculate_bm25", "calculate_bm25_with_cutoff", "calculate_spearman"}
     /\ ret.kind # "pending")
        => ret.kind \in {"value", "absent"}

\* the two lists are orderings of one set of distinct document indices
SameOrderings(rank, golden_rank) ==
    /\ Len(rank) = Len(golden_rank)
    /\ \A i, j \in DOMAIN rank : i # j => rank[i].q # rank[j].q
    /\ {rank[i].q : i \in DOMAIN rank} = {golden_rank[i].q : i \in DOMAIN golden_rank}

\* the position of a document index in an ordering
PositionIn(list, x) == CHOOSE i \in DOMAIN list : list[i].q = x.q

\* the sum of d^2 over the first i documents of rank
RECURSIVE SumSquares(_, _, _)
SumSquares(rank, golden_rank, i) ==
    IF i = 0
    THEN 0
    ELSE LET d == PositionIn(golden_rank, rank[i]) - i
         IN  d * d + SumSquares(rank, golden_rank, i - 1)

Reversed(list) == [i \in DOMAIN list |-> list[Len(list) + 1 - i]]

\* C4: on two orderings of the same n >= 2 distinct document indices
\* calculate_spearman returns 1 - 6*sum(d^2)/(n*(n^2-1)), a value of
\* [-1, 1]: 1 on identical lists and -1 on a list and its reverse.
C4_SpearmanFormula ==
    (Returned("calculate_spearman")
     /\ IsList(args.rank) /\ IsList(args.golden_rank)
     /\ AllInt(args.rank.items) /\ AllInt(args.golden_rank.items)
     /\ Len(args.rank.items) >= 2
     /\ SameOrderings(args.rank.items, args.golden_rank.items))
        => LET n == Len(args.rank.items)
               s == SumSquares(args.rank.items, args.golden_rank.items, n)
           IN  /\ ret.kind = "value"
               /\ QMul(QSub(QInt(1), ret.val.q), QInt(n * (n * n - 1))) = QInt(6 * s)
               /\ QLe(QInt(-1), ret.val.q) /\ QLe(ret.val.q, QInt(1))
               /\ args.rank = args.golden_rank => ret.val.q = QInt(1)
               /\ args.rank.items = Reversed(args.golden_rank.items)
                    => ret.val.q = QInt(-1)

\* two orderings of three documents that neither agree nor are reversed
C4_Witness ==
    /\ Returned("calculate_spearman")
    /\ ret.kind = "value"
    /\ Len(args.rank.items) = 3
    /\ SameOrderings(args.rank.items, args.golden_rank.items)
    /\ ret.val.q = Q(1, 2)

\* C6: the keys of a result of calculate_bm25_with_cutoff are exactly the
\* vocabulary terms that have an IDF of at least alpha; a term of smaller
\* IDF and a document token outside the vocabulary are no keys; with alpha
\* above every IDF value the result is the empty map, not the absent value.
C6_CutoffKeys ==
    Returned("calculate_bm25_with_cutoff") =>
        /\ ret.kind = "value" =>
             /\ \A t \in DOMAIN ret.val.m :
                   /\ t \in Range(args.vocab.items)
                   /\ t \in DOMAIN args.idf_document.m
                   /\ ~QLt(args.idf_document.m[t].q, args.alpha.q)
             /\ \A i \in DOMAIN args.vocab.items :
                   LET t == args.vocab.items[i]
                   IN  (t \in DOMAIN args.idf_document.m
                        /\ ~QLt(args.idf_document.m[t].q, args.alpha.q))
                           => t \in DOMAIN ret.val.m
        /\ (/\ ~CutoffBadInput(args.vocab, args.document, args.idf_document,
                               args.alpha, args.k1, args.b, args.avg_doc_len,
                               args.doc_len)
            /\ \A k \in DOMAIN args.idf_document.m :
                  QLt(args.idf_document.m[k].q, args.alpha.q))
               => (ret.kind = "value" /\ DOMAIN ret.val.m = {})

\* a result that keeps a term whose IDF equals alpha and drops a
\* vocabulary term of smaller IDF
C6_Witness ==
    /\ Returned("calculate_bm25_with_cutoff")
    /\ ret.kind = "value"
    /\ \E t \in DOMAIN ret.val.m : args.idf_document.m[t].q = args.alpha.q
    /\ \E i \in DOMAIN args.vocab.items :
          /\ args.vocab.items[i] \in DOMAIN args.idf_document.m
          /\ args.vocab.items[i] \notin DOMAIN ret.val.m

\* the number of occurrences of a token in a document
Occurrences(document, t) == Cardinality({i \in DOMAIN document : document[i] = t})

\* f + k1*(1 - b + b*doc_len/avg_doc_len)
ClaimedDivisor(f) ==
    QAdd(QInt(f),
         QMul(args.k1.q,
              QAdd(QSub(QInt(1), args.b.q),
                   QDiv(QMul(args.b.q, args.doc_len.q), args.avg_doc_len.q))))

\* C7: the keys of a result of calculate_bm25 are the vocabulary terms and
\* the document's tokens; a key without IDF entry has score 0, a key with
\* one has score idf*(f*(k1+1)) / (f + k1*(1 - b + b*doc_len/avg_doc_len)),
\* f its number of occurrences in the document, hence 0 when f = 0.
C7_Bm25Scores ==
    (Returned("calculate_bm25") /\ ret.kind = "value") =>
        /\ DOMAIN ret.val.m = Range(args.vocab.items) \cup Range(args.document.items)
        /\ \A t \in DOMAIN ret.val.m :
              LET f == Occurrences(args.document.items, t)
              IN  IF t \in DOMAIN args.idf_document.m
                  THEN /\ ~QIsZero(args.avg_doc_len.q)
                       /\ ~QIsZero(ClaimedDivisor(f))
                       /\ QMul(ret.val.m[t].q, ClaimedDivisor(f))
                            = QMul(args.idf_document.m[t].q,
                                   QMul(QInt(f), QAdd(args.k1.q, QInt(1))))
                       /\ f = 0 => QIsZero(ret.val.m[t].q)
                  ELSE QIsZero(ret.val.m[t].q)

\* a result with a token that occurs twice and has an IDF entry, and a
\* token of the document that has none
C7_Witness ==
    /\ Returned("calculate_bm25")
    /\ ret.kind = "value"
    /\ \E t \in DOMAIN ret.val.m :
          /\ t \in DOMAIN args.idf_document.m
          /\ Occurrences(args.document.items, t) = 2
          /\ ~QIsZero(ret.val.m[t].q)
    /\ \E t \in Range(args.vocab.items) :
          t \notin DOMAIN args.idf_document.m

(***************************************************************************)
(* Calls of calculate_idf.                                                 *)
(***************************************************************************)
IdfVocabInputs ==
    {List(s) : s \in SeqsOf({Tok("a"), Tok("b"), Tok("c"), Tok("1")}, 0, MaxIdfVocab)}
    \cup {NotAList("none"), List(<<PyInt(1)>>), List(<<PyStr(<<>>)>>)}

IdfDocuments ==
    {List(<<>>), List(<<Tok("a")>>), List(<<Tok("b")>>),
     List(<<Tok("a"), Tok("b")>>), List(<<Tok("a"), Tok("1")>>)}

IdfCorpusInputs ==
    {List(s) : s \in SeqsOf(IdfDocuments, 0, MaxIdfDocs)}
    \cup {NotAList("none"), List(<<NotAList("str")>>), List(<<List(<<PyInt(1)>>)>>)}

InitIdf ==
    /\ fn = "calculate_idf"
    /\ args \in [vocab : IdfVocabInputs, documents : IdfCorpusInputs]
    /\ ret = Pending
    /\ files = NoFiles
    /\ lastValid = NoFiles
    /\ lastGiven = NoFiles

CalculateIdf ==
    /\ fn = "calculate_idf"
    /\ ret.kind = "pending"
    /\ ret' = calculate_idf(args.vocab, args.documents)
    /\ UNCHANGED <<fn, args, files, lastValid, lastGiven>>

NextIdf == CalculateIdf

SpecIdf == InitIdf /\ [][NextIdf]_vars

(***************************************************************************)
(* Claims on calculate_idf.                                                *)
(***************************************************************************)
\* the number of documents that contain a term
DocumentFrequency(t) ==
    Cardinality({i \in DOMAIN args.documents.items :
                    \E j \in DOMAIN args.documents.items[i].items :
                        args.documents.items[i].items[j] = t})

\* ln((N - n + 0.5)/(n + 0.5)) = ln((2(N - n) + 1)/(2n + 1))
ClaimedIdf(N, n) == Ln(Q(2 * (N - n) + 1, 2 * n + 1))

\* ln(x) < ln(y), ln(x) <= ln(y), ln(x) < 0
LnLess(x, y) == QLt(x.ln, y.ln)
LnLessEq(x, y) == QLe(x.ln, y.ln)
LnNegative(x) == QLt(x.ln, QInt(1))

\* C9: the keys of a result of calculate_idf are exactly the vocabulary
\* terms; the score of a term contained in n of the N documents is
\* ln((N - n + 0.5)/(n + 0.5)), strictly decreasing in n: negative for a
\* term of every document, the largest possible for a term of none.
C9_IdfByDocumentFrequency ==
    (Returned("calculate_idf") /\ ret.kind = "value") =>
        LET N == Len(args.documents.items)
        IN  /\ DOMAIN ret.val = Range(args.vocab.items)
            /\ \A t \in DOMAIN ret.val :
                  /\ ret.val[t] = ClaimedIdf(N, DocumentFrequency(t))
                  /\ DocumentFrequency(t) = N => LnNegative(ret.val[t])
                  /\ DocumentFrequency(t) = 0 =>
                        \A n \in 0..N : LnLessEq(ClaimedIdf(N, n), ret.val[t])
            /\ \A t, u \in DOMAIN ret.val :
                  DocumentFrequency(t) < DocumentFrequency(u)
                      => LnLess(ret.val[u], ret.val[t])

\* a corpus of three documents with a term of every document and a term
\* of none
C9_Witness ==
    /\ Returned("calculate_idf")
    /\ ret.kind = "value"
    /\ Len(args.documents.items) = 3
    /\ \E t, u \in DOMAIN ret.val :
          DocumentFrequency(t) = 3 /\ DocumentFrequency(u) = 0

(***************************************************************************)
(* Calls of save_index and load_index, in any order.  Of a call, args      *)
(* keeps the path; the index saved lives on in files and in the history.   *)
(***************************************************************************)
PathNames == {<<"p">>, <<"q">>}

PathInputs == {PyStr(n) : n \in PathNames} \cup {PyStr(<<>>), PyNone}

SavedDicts ==
    {Dict([k \in {Tok("a")} |-> PyFloat(Q(1, 2))]),
     Dict([k \in {Tok("a"), Tok("b")} |->
             IF k = Tok("a") THEN PyFloat(QInt(1)) ELSE PyFloat(QInt(-2))])}

SaveIndexInputs ==
    {List(s) : s \in SeqsOf(SavedDicts, 0, MaxSavedDocs)}
    \cup {NotAList("none"), NotAList("dict"), List(<<NotADict("int")>>),
          List(<<Dict([k \in {PyInt(1)} |-> PyFloat(QInt(1))])>>),
          List(<<Dict([k \in {Tok("a")} |-> PyInt(1)])>>)}

NeverSaved == [saved |-> FALSE, index |-> List(<<>>)]
Saved(index) == [saved |-> TRUE, index |-> index]

\* a list of maps from string to float
IsListOfFloatMaps(index) ==
    /\ IsList(index)
    /\ \A i \in DOMAIN index.items :
          /\ IsDict(index.items[i])
          /\ \A k \in DOMAIN index.items[i].m :
                IsStr(k) /\ IsFloat(index.items[i].m[k])

IsPath(file_path) == IsStr(file_path) /\ file_path.s # <<>>

InitPersist ==
    /\ fn = "none"
    /\ args = [file_path |-> PyNone]
    /\ ret = Pending
    /\ files = [n \in PathNames |-> NoFile]
    /\ lastValid = [n \in PathNames |-> NeverSaved]
    /\ lastGiven = [n \in PathNames |-> NeverSaved]

SaveIndex ==
    \E index \in SaveIndexInputs, file_path \in PathInputs :
        /\ fn' = "save_index"
        /\ args' = [file_path |-> file_path]
        /\ files' = save_index(files, index, file_path)
        /\ ret' = Absent
        /\ lastGiven' =
              IF IsListOfFloatMaps(index) /\ IsPath(file_path)
              THEN [lastGiven EXCEPT ![file_path.s] = Saved(index)]
              ELSE lastGiven
        /\ lastValid' =
              IF IsListOfFloatMaps(index) /\ index.items # <<>> /\ IsPath(file_path)
              THEN [lastValid EXCEPT ![file_path.s] = Saved(index)]
              ELSE lastValid

LoadIndex ==
    \E file_path \in PathInputs :
        /\ fn' = "load_index"
        /\ args' = [file_path |-> file_path]
        /\ ret' = load_index(files, file_path)
        /\ UNCHANGED <<files, lastValid, lastGiven>>

NextPersist == SaveIndex \/ LoadIndex

SpecPersist == InitPersist /\ [][NextPersist]_vars

(***************************************************************************)
(* Claims on save_index and load_index.                                    *)
(***************************************************************************)
\* the loaded list equals the index: as many maps, in the same order, each
\* with the same keys and the same float values
SameIndex(loaded, index) ==
    /\ IsList(loaded)
    /\ Len(loaded.items) = Len(index.items)
    /\ \A i \in DOMAIN index.items :
          /\ IsDict(loaded.items[i])
          /\ DOMAIN loaded.items[i].m = DOMAIN index.items[i].m
          /\ \A k \in DOMAIN index.items[i].m :
                /\ IsFloat(loaded.items[i].m[k])
                /\ loaded.items[i].m[k].q = index.items[i].m[k].q

\* C8 as stated: load_index(p) returns a list equal to the last list of
\* string-to-float maps handed to save_index with the path p, whatever
\* calls of save_index with a malformed index or path came after it.
C8_RoundTripAnyList ==
    (Returned("load_index") /\ IsPath(args.file_path)
     /\ lastGiven[args.file_path.s].saved)
        => (ret.kind = "value"
            /\ SameIndex(ret.val, lastGiven[args.file_path.s].index))

\* C8, amended: load_index(p) returns a list equal to the last non-empty
\* list of string-to-float maps handed to save_index with the path p: the
\* same number of maps in the same order with the same keys and values.
\* A call of save_index with an empty or malformed index, or with a
\* malformed path, writes nothing and leaves that result as it was.
C8_RoundTripNonEmpty ==
    (Returned("load_index") /\ IsPath(args.file_path)
     /\ lastValid[args.file_path.s].saved)
        => (ret.kind = "value"
            /\ SameIndex(ret.val, lastValid[args.file_path.s].index))

\* load_index returns an index of two different maps saved at its path,
\* after an empty index was handed to save_index with that path and
\* another index was saved at the other path
C8_Witness ==
    /\ Returned("load_index") /\ IsPath(args.file_path)
    /\ ret.kind = "value"
    /\ Len(ret.val.items) = 2
    /\ ret.val.items[1] # ret.val.items[2]
    /\ lastGiven[args.file_path.s].index = List(<<>>)
    /\ lastGiven[args.file_path.s].saved
    /\ \E n \in PathNames :
          /\ n # args.file_path.s
          /\ lastValid[n].saved
          /\ lastValid[n].index # lastValid[args.file_path.s].index

====
